---- MODULE Spec2Model ----
(***************************************************************************)
(* Model of the DeFi health monitor metrics pipeline:                      *)
(*   collectors/defi_collector.py   DefiDataCollector                      *)
(*   analyzers/protocol_analyzer.py ProtocolAnalyzer                       *)
(*                                                                         *)
(* Units.  TVL and market cap are integers counted in units of 1e8 USD, so *)
(* 1e8 = 1, 1e9 = 10 and 10e9 = 100.  Time is counted in days.  The scores *)
(* in [0,1] are integers counted in 1/ScoreScale, ScoreScale = 10 * 365,   *)
(* which makes tvl/1e9, age_days/365 and chain_count/10 exact.             *)
(* Quotients of floats are kept as fractions num/den (den > 0) or as the   *)
(* IEEE specials nan / inf.                                                *)
(***************************************************************************)
EXTENDS Integers, Sequences, FiniteSets, TLC

\* ---------------------------------------------------------------- bounds
MaxProtocols == 3
MaxTopN == 4
MaxNegTopN == 2
MaxRows == 4

\* ------------------------------------------------------ program constants
Billion == 10
HundredMillion == 1
TenBillion == 100
DaysPerYear == 365
ChainSaturation == 10
HttpOk == 200

ScoreScale == ChainSaturation * DaysPerYear
Half == ScoreScale \div 2
TvlScoreCap == (6 * ScoreScale) \div 10
AgeScoreCap == (4 * ScoreScale) \div 10

Min(a, b) == IF a <= b THEN a ELSE b

\* The instant read by datetime.now(), in days.
Today == 1000

\* ------------------------------------------------------- raw JSON values
\* A raw field value is tagged with its Python type:
\*   absent  the key is missing from the dict
\*   null    None
\*   num     an int or float, val is its value
\*   str     a string that parses as a number / ISO date, val is the parse
\*   junk    a string that does not parse
\*   huge    an int too large for a float (float() raises OverflowError)
\*   object  a nested list or object (float() raises TypeError)
Absent == [kind |-> "absent", val |-> 0]
Null == [kind |-> "null", val |-> 0]
Junk == [kind |-> "junk", val |-> 0]
Huge == [kind |-> "huge", val |-> 0]
Object == [kind |-> "object", val |-> 0]
Num(n) == [kind |-> "num", val |-> n]
Str(n) == [kind |-> "str", val |-> n]

\* The chains field: a list of chain names, None, or missing.
List(s) == [kind |-> "list", val |-> s]
NoChains == [kind |-> "absent", val |-> <<>>]
NullChains == [kind |-> "null", val |-> <<>>]
ChainNames == <<"c1", "c2", "c3", "c4", "c5", "c6", "c7", "c8", "c9", "c10", "c11", "c12">>
Chains(k) == List(SubSeq(ChainNames, 1, k))

\* The name and category fields: a string or missing.
Text(s) == [kind |-> "str", val |-> s]
NoText == [kind |-> "absent", val |-> ""]

\* A raw record: a JSON object (isDict) or any other JSON value.
Dict(name, tvl, mcap, chains, category, created_at) ==
    [isDict |-> TRUE, name |-> name, tvl |-> tvl, mcap |-> mcap,
     chains |-> chains, category |-> category, created_at |-> created_at]
NonDict ==
    [isDict |-> FALSE, name |-> NoText, tvl |-> Absent, mcap |-> Absent,
     chains |-> NoChains, category |-> NoText, created_at |-> Absent]

\* dict.get(key, default)
Get(d, key, default) == IF d[key].kind = "absent" THEN default ELSE d[key]

\* Results of a call that may raise: ok = FALSE is a raised exception.
Ok(v) == [ok |-> TRUE, val |-> v]
Raise == [ok |-> FALSE, val |-> 0]

\* _safe_float: None -> 0.0, float(value), TypeError/ValueError -> 0.0;
\* OverflowError is not caught.
SafeFloat(value) ==
    CASE value.kind = "null" -> Ok(0)
      [] value.kind = "num" -> Ok(value.val)
      [] value.kind = "str" -> Ok(value.val)
      [] value.kind = "junk" -> Ok(0)
      [] value.kind = "object" -> Ok(0)
      [] value.kind = "huge" -> Raise
      [] OTHER -> Ok(0)

\* len(value): defined on lists only here (None and numbers raise TypeError)
PyLen(value) ==
    IF value.kind = "list" THEN Ok(Len(value.val)) ELSE Raise

\* _calculate_diversification_score
CalculateDiversificationScore(protocol_data) ==
    LET chain_count == PyLen(Get(protocol_data, "chains", List(<<>>)))
    IN IF ~chain_count.ok THEN Half
       ELSE Min((chain_count.val * ScoreScale) \div ChainSaturation, Half) + Half

\* _calculate_stability_score; t is the reading of datetime.now()
CalculateStabilityScore(protocol_data, t) ==
    LET tvl == SafeFloat(Get(protocol_data, "tvl", Num(0)))
        raw == Get(protocol_data, "created_at", Num(t))
        created_at == CASE raw.kind = "str" -> Num(raw.val)
                        [] raw.kind = "junk" -> Num(t)
                        [] OTHER -> raw
    IN IF ~tvl.ok \/ created_at.kind # "num" THEN Half
       ELSE LET age_days == t - created_at.val
                tvl_score == Min((tvl.val * ScoreScale) \div Billion, TvlScoreCap)
                age_score == Min((age_days * ScoreScale) \div DaysPerYear, AgeScoreCap)
            IN tvl_score + age_score

AssessRiskLevelGe(protocol_data) ==
    LET tvl == SafeFloat(Get(protocol_data, "tvl", Num(0)))
        chain_count == PyLen(Get(protocol_data, "chains", List(<<>>)))
    IN IF ~tvl.ok \/ ~chain_count.ok THEN "Unknown"
       ELSE LET a == IF tvl.val >= Billion THEN 1
                     ELSE IF tvl.val >= HundredMillion THEN 2 ELSE 3
                b == IF chain_count.val >= 5 THEN 1
                     ELSE IF chain_count.val >= 2 THEN 2 ELSE 3
                risk_score == a + b
            IN IF risk_score <= 3 THEN "Low"
               ELSE IF risk_score <= 5 THEN "Medium" ELSE "High"

\* _assess_risk_level
AssessRiskLevel(protocol_data) ==
    LET tvl == SafeFloat(Get(protocol_data, "tvl", Num(0)))
        chain_count == PyLen(Get(protocol_data, "chains", List(<<>>)))
    IN IF ~tvl.ok \/ ~chain_count.ok THEN "Unknown"
       ELSE LET a == IF tvl.val > Billion THEN 1
                     ELSE IF tvl.val > HundredMillion THEN 2 ELSE 3
                b == IF chain_count.val > 5 THEN 1
                     ELSE IF chain_count.val > 2 THEN 2 ELSE 3
                risk_score == a + b
            IN IF risk_score <= 3 THEN "Low"
               ELSE IF risk_score <= 5 THEN "Medium" ELSE "High"

\* A float quotient a / b of two float64 values (numpy semantics for b = 0).
\* Finite quotients are fractions in lowest terms with den > 0.
Abs(n) == IF n < 0 THEN 0 - n ELSE n
RECURSIVE GCD(_, _)
GCD(a, b) == IF b = 0 THEN a ELSE GCD(b, a % b)
Frac(n, d) ==
    LET g == GCD(Abs(n), Abs(d))
        sign == IF d < 0 THEN 0 - 1 ELSE 1
    IN [kind |-> "fin", num |-> (sign * n) \div g, den |-> Abs(d) \div g]
NaN == [kind |-> "nan", num |-> 0, den |-> 1]
Inf == [kind |-> "inf", num |-> 1, den |-> 1]
NegInf == [kind |-> "inf", num |-> 0 - 1, den |-> 1]
Zero == Frac(0, 1)

\* get_protocol_health_metrics: the outcome is a row (kind "metrics"),
\* None (kind "none") or an exception escaping the handler (kind "raised").
NoRow ==
    [name |-> NoText, tvl |-> 0, mcap |-> 0, mcap_tvl_ratio |-> Zero,
     chains |-> NoChains, category |-> NoText,
     health_metrics |-> [diversification_score |-> 0, stability_score |-> 0,
                         risk_level |-> "Unknown"]]
ScoredNone == [kind |-> "none", row |-> NoRow]
ScoredRaised == [kind |-> "raised", row |-> NoRow]

GetProtocolHealthMetrics(protocol_data, t) ==
    IF ~protocol_data.isDict THEN ScoredRaised
    ELSE LET tvl == SafeFloat(Get(protocol_data, "tvl", Num(0)))
             mcap == SafeFloat(Get(protocol_data, "mcap", Num(0)))
         IN IF ~tvl.ok \/ ~mcap.ok THEN ScoredNone
            ELSE [kind |-> "metrics",
                  row |-> [name |-> Get(protocol_data, "name", Text("Unknown")),
                           tvl |-> tvl.val,
                           mcap |-> mcap.val,
                           mcap_tvl_ratio |->
                               IF tvl.val > 0 THEN Frac(mcap.val, tvl.val) ELSE Zero,
                           chains |-> Get(protocol_data, "chains", List(<<>>)),
                           category |-> Get(protocol_data, "category", Text("Unknown")),
                           health_metrics |->
                               [diversification_score |->
                                    CalculateDiversificationScore(protocol_data),
                                stability_score |->
                                    CalculateStabilityScore(protocol_data, t),
                                risk_level |-> AssessRiskLevel(protocol_data)]]]

\* ------------------------------------------------------------ the fetch
\* An HTTP exchange: a transport exception, or a status with a body that is
\* not JSON ("invalid"), null, an object ("dict", "emptydict") or a list.
PyNone == [kind |-> "null", val |-> <<>>]
JsonList(s) == [kind |-> "list", val |-> s]
JsonDict == [kind |-> "dict", val |-> <<>>]
JsonEmptyDict == [kind |-> "emptydict", val |-> <<>>]
NotJson == [kind |-> "invalid", val |-> <<>>]
TransportException == [kind |-> "exception", status |-> 0, body |-> PyNone]
Http(status, body) == [kind |-> "http", status |-> status, body |-> body]

FetchDataAnyStatus(response) ==
    IF response.kind = "exception" THEN PyNone
    ELSE IF response.body.kind = "invalid" THEN PyNone ELSE response.body

\* fetch_data: the parsed body on status 200, None otherwise
FetchData(response) ==
    IF response.kind = "exception" THEN PyNone
    ELSE IF response.status = HttpOk
         THEN IF response.body.kind = "invalid" THEN PyNone ELSE response.body
         ELSE PyNone

\* bool(data)
Truthy(data) ==
    \/ data.kind = "list" /\ Len(data.val) > 0
    \/ data.kind = "dict"

\* get_protocol_data (protocol_name = None): [] on falsy data; data[0] raises
\* KeyError on an object; otherwise the data itself.
GetProtocolData(data) ==
    IF ~Truthy(data) THEN [ok |-> TRUE, val |-> <<>>]
    ELSE IF data.kind = "dict" THEN [ok |-> FALSE, val |-> <<>>]
    ELSE [ok |-> TRUE, val |-> data.val]

\* ------------------------------------------------------------- the sort
\* key=lambda x: self._safe_float(x.get('tvl', 0))
SortKey(x) ==
    IF ~x.isDict THEN Raise ELSE SafeFloat(Get(x, "tvl", Num(0)))

\* Insert x into t (sorted by descending key) behind every element whose key
\* is not smaller: equal keys keep their order of arrival.
InsertDesc(t, x) ==
    LET j == Cardinality({i \in 1..Len(t) : SortKey(t[i]).val >= SortKey(x).val})
    IN SubSeq(t, 1, j) \o <<x>> \o SubSeq(t, j + 1, Len(t))

RECURSIVE StableSortDesc(_)
StableSortDesc(s) ==
    IF Len(s) = 0 THEN <<>>
    ELSE InsertDesc(StableSortDesc(SubSeq(s, 1, Len(s) - 1)), s[Len(s)])

SortedByTvlUnsorted(s) ==
    IF \E i \in 1..Len(s) : ~SortKey(s[i]).ok
    THEN [ok |-> FALSE, val |-> <<>>]
    ELSE [ok |-> TRUE, val |-> s]

\* sorted(protocols, key=..., reverse=True): raises when a key raises
SortedByTvl(s) ==
    IF \E i \in 1..Len(s) : ~SortKey(s[i]).ok
    THEN [ok |-> FALSE, val |-> <<>>]
    ELSE [ok |-> TRUE, val |-> StableSortDesc(s)]

\* s[:n]
PySlice(s, n) ==
    IF n >= 0 THEN SubSeq(s, 1, Min(n, Len(s)))
    ELSE SubSeq(s, 1, IF Len(s) + n > 0 THEN Len(s) + n ELSE 0)

\* -------------------------------------------------------- the data frame
\* pd.DataFrame(): no columns, no rows.
EmptyDataFrame == [columns |-> FALSE, rows |-> <<>>, timestamp |-> 0]
DataFrame(results, t) == [columns |-> TRUE, rows |-> results, timestamp |-> t]

\* ------------------------------------------------------ ProtocolAnalyzer
RECURSIVE SumSeq(_)
SumSeq(values) ==
    IF Len(values) = 0 THEN 0 ELSE values[1] + SumSeq(Tail(values))

TvlColumn(rows) == [i \in 1..Len(rows) |-> rows[i].tvl]

\* a / b on float64 values: 0/0 is nan, x/0 is +-inf (a warning, no exception)
FloatDivide(a, b) ==
    IF b # 0 THEN Frac(a, b)
    ELSE IF a = 0 THEN NaN ELSE IF a > 0 THEN Inf ELSE NegInf

Times(f, k) == IF f.kind = "fin" THEN Frac(f.num * k, f.den) ELSE f

CalculateConcentrationUnsquared(values) ==
    LET total == SumSeq(values)
    IN IF total = 0 THEN Zero ELSE Frac(SumSeq(values), total)

\* _calculate_concentration
CalculateConcentration(values) ==
    LET total == SumSeq(values)
    IN IF total = 0 THEN Zero
       ELSE Frac(SumSeq([i \in 1..Len(values) |-> values[i] * values[i]]),
                 total * total)

\* Series.nlargest(k).sum()
RECURSIVE NLargestSum(_, _)
NLargestSum(values, k) ==
    IF k = 0 \/ Len(values) = 0 THEN 0
    ELSE LET m == CHOOSE i \in 1..Len(values) :
                      \A j \in 1..Len(values) : values[i] >= values[j]
             rest == SubSeq(values, 1, m - 1) \o SubSeq(values, m + 1, Len(values))
         IN values[m] + NLargestSum(rest, k - 1)

\* _calculate_top_dominance
CalculateTopDominance(rows) ==
    LET total_tvl == SumSeq(TvlColumn(rows))
    IN [top_3_dominance |-> Times(FloatDivide(NLargestSum(TvlColumn(rows), 3), total_tvl), 100),
        top_5_dominance |-> Times(FloatDivide(NLargestSum(TvlColumn(rows), 5), total_tvl), 100),
        top_10_dominance |-> Times(FloatDivide(NLargestSum(TvlColumn(rows), 10), total_tvl), 100)]

\* _analyze_chain_distribution (chain_diversity and the average; the ranking
\* most_popular_chains is left out).  Iterating a chains value that is None
\* raises TypeError; an empty frame raises ZeroDivisionError.
AnalyzeChainDistribution(rows) ==
    IF \E i \in 1..Len(rows) : rows[i].chains.kind # "list"
    THEN [ok |-> FALSE, chain_diversity |-> 0, average_chains_per_protocol |-> Zero]
    ELSE IF Len(rows) = 0
    THEN [ok |-> FALSE, chain_diversity |-> 0, average_chains_per_protocol |-> Zero]
    ELSE [ok |-> TRUE,
          chain_diversity |->
              Cardinality(UNION {{rows[i].chains.val[j] : j \in 1..Len(rows[i].chains.val)}
                                 : i \in 1..Len(rows)}),
          average_chains_per_protocol |->
              Frac(SumSeq([i \in 1..Len(rows) |-> Len(rows[i].chains.val)]), Len(rows))]

\* _analyze_risk_distribution
AnalyzeRiskDistribution(rows) ==
    LET level(i) == rows[i].health_metrics.risk_level
        levels == {level(i) : i \in 1..Len(rows)}
    IN [risk_distribution |->
            [l \in levels |-> Cardinality({i \in 1..Len(rows) : level(i) = l})],
        high_risk_tvl |->
            SumSeq(TvlColumn(SelectSeq(rows,
                       LAMBDA r : r.health_metrics.risk_level = "High")))]

\* calculate_market_metrics: the metrics, or {} when anything raised
NoDominance ==
    [top_3_dominance |-> Zero, top_5_dominance |-> Zero, top_10_dominance |-> Zero]
NoMarket(kind) ==
    [kind |-> kind, total_tvl |-> 0, average_tvl |-> Zero, tvl_concentration |-> Zero,
     chain_distribution |->
         [ok |-> FALSE, chain_diversity |-> 0, average_chains_per_protocol |-> Zero],
     risk_distribution |-> [risk_distribution |-> <<>>, high_risk_tvl |-> 0],
     top_protocols_dominance |-> NoDominance]

CalculateMarketMetrics(data) ==
    IF ~data.columns THEN NoMarket("empty")
    ELSE IF ~AnalyzeChainDistribution(data.rows).ok THEN NoMarket("empty")
    ELSE [kind |-> "metrics",
          total_tvl |-> SumSeq(TvlColumn(data.rows)),
          average_tvl |-> FloatDivide(SumSeq(TvlColumn(data.rows)), Len(data.rows)),
          tvl_concentration |-> CalculateConcentration(TvlColumn(data.rows)),
          chain_distribution |-> AnalyzeChainDistribution(data.rows),
          risk_distribution |-> AnalyzeRiskDistribution(data.rows),
          top_protocols_dominance |-> CalculateTopDominance(data.rows)]

\* generate_protocol_insights: one entry per row, in row order; the tags are a
\* list of (type, level) -- the message text is left out.  len() of a chains
\* value that is None raises TypeError and nothing here catches it.
Tag(type, level) == [type |-> type, level |-> level]

ProtocolInsights(protocol) ==
    LET chain_count == Len(protocol.chains.val)
        size == IF protocol.tvl > TenBillion THEN <<Tag("size", "high")>> ELSE <<>>
        diversity == IF chain_count > 10 THEN <<Tag("diversity", "positive")>>
                     ELSE IF chain_count < 3 THEN <<Tag("diversity", "warning")>>
                     ELSE <<>>
        risk == IF protocol.health_metrics.risk_level = "High"
                THEN <<Tag("risk", "warning")>> ELSE <<>>
    IN [name |-> protocol.name, insights |-> size \o diversity \o risk]

NoInsights(kind) == [kind |-> kind, entries |-> <<>>]

GenerateProtocolInsights(data) ==
    IF \E k \in 1..Len(data.rows) : ~PyLen(data.rows[k].chains).ok
    THEN NoInsights("raised")
    ELSE [kind |-> "returned",
          entries |-> [k \in 1..Len(data.rows) |-> ProtocolInsights(data.rows[k])]]

\* ------------------------------------------------------------- inputs
ProtocolNames == <<"p1", "p2", "p3", "p4", "p5", "p6">>

\* Raw records offered to the pipeline: well formed ones (ties included),
\* zero and negative TVL, unparseable fields, and values that make the
\* scorer or the sort key raise.
PipelineRecords ==
    { Dict(NoText, Num(20), Num(7), Chains(6), Text("Dexes"), Num(Today - 400)),
      Dict(NoText, Str(5), Absent, Chains(3), NoText, Absent),
      Dict(NoText, Num(5), Huge, Chains(1), NoText, Absent),
      Dict(NoText, Num(0), Null, NoChains, NoText, Absent),
      Dict(NoText, Num(0 - 10), Num(7), Chains(2), NoText, Junk),
      Dict(NoText, Junk, Absent, NullChains, NoText, Null),
      Dict(NoText, Huge, Absent, Chains(1), NoText, Absent),
      NonDict }

SeqsUpTo(S, n) == UNION {[1..k -> S] : k \in 0..n}

\* The i-th record of a payload is named after its position.
Named(s) ==
    [i \in 1..Len(s) |->
        IF s[i].isDict THEN [s[i] EXCEPT !.name = Text(ProtocolNames[i])] ELSE s[i]]

Payloads == {Named(s) : s \in SeqsUpTo(PipelineRecords, MaxProtocols)}

Responses ==
    {TransportException}
    \cup {Http(HttpOk, b) : b \in {NotJson, PyNone, JsonDict, JsonEmptyDict}}
    \cup {Http(HttpOk, JsonList(p)) : p \in Payloads}
    \cup {Http(st, JsonList(p)) : st \in {404, 500}, p \in SeqsUpTo({NonDict}, 1)}
    \cup {Http(500, JsonList(Named(<<Dict(NoText, Num(20), Num(7), Chains(6),
                                          Text("Dexes"), Num(Today - 400))>>)))}

\* Raw records offered to the scorer alone.
TvlValues ==
    {Absent, Null, Junk, Huge, Object, Str(5)}
    \cup {Num(n) : n \in {0 - 10, 0, HundredMillion, HundredMillion + 1,
                          Billion, Billion + 1, 2 * Billion, TenBillion + 1}}
McapValues == {Absent, Null, Junk, Huge, Num(0 - 3), Num(0), Num(7)}
ChainsValues ==
    {NoChains, NullChains} \cup {Chains(k) : k \in {0, 2, 3, 5, 6, 10, 11, 12}}
CreatedValues ==
    {Absent, Null, Junk, Object, Str(Today - 400)}
    \cup {Num(Today - d) : d \in {400, 146, 100, 0, 0 - 30}}
ScorerRecords ==
    {NonDict} \cup
    {Dict(n, t, m, c, NoText, a) :
        n \in {NoText, Text("p1")}, t \in TvlValues, m \in McapValues,
        c \in ChainsValues, a \in CreatedValues}

\* -------------------------------------------------------------- state
VARIABLES
    pc,                 \* position of analyze_protocols / the analyzer
    top_n,              \* argument of analyze_protocols
    response,           \* the HTTP exchange of the fetch
    protocols,          \* what get_protocol_data returned
    sorted_protocols,   \* sorted(...)[:top_n]
    i,                  \* records of sorted_protocols already visited
    results,            \* the rows collected so far
    df,                 \* the frame analyze_protocols returned
    outcome,            \* "pending", "returned" or "raised"
    fetches,            \* HTTP requests issued so far
    completed,          \* HTTP requests that have completed
    insights,           \* what generate_protocol_insights returned
    market,             \* what calculate_market_metrics returned
    raw,                \* the record handed to get_protocol_health_metrics
    scored              \* its outcome

vars == <<pc, top_n, response, protocols, sorted_protocols, i, results, df,
          outcome, fetches, completed, insights, market, raw, scored>>

NoResponse == [kind |-> "none", status |-> 0, body |-> PyNone]
ScoredPending == [kind |-> "pending", row |-> NoRow]

pipelineVars == <<pc, top_n, response, protocols, sorted_protocols, i, results,
                  df, outcome, fetches, completed, insights, market>>

InitPipeline ==
    /\ pc = "idle"
    /\ top_n = 0
    /\ response = NoResponse
    /\ protocols = <<>>
    /\ sorted_protocols = <<>>
    /\ i = 0
    /\ results = <<>>
    /\ df = EmptyDataFrame
    /\ outcome = "pending"
    /\ fetches = 0
    /\ completed = 0
    /\ insights = NoInsights("pending")
    /\ market = NoMarket("pending")

Init ==
    /\ InitPipeline
    /\ raw = NonDict
    /\ scored = ScoredPending

\* except Exception in analyze_protocols: log and return pd.DataFrame()
ReturnEmpty ==
    /\ df' = EmptyDataFrame
    /\ outcome' = "returned"
    /\ pc' = "done"

\* analyze_protocols(top_n) is called and awaits the fetch
Call(n) ==
    /\ pc = "idle"
    /\ pc' = "fetching"
    /\ top_n' = n
    /\ fetches' = fetches + 1
    /\ UNCHANGED <<response, protocols, sorted_protocols, i, results, df, outcome,
                   completed, insights, market, raw, scored>>

FetchReturnRetry(r) ==
    /\ pc = "fetching"
    /\ response' = r
    /\ LET got == GetProtocolData(FetchData(r))
       IN IF (~got.ok \/ Len(got.val) = 0) /\ fetches < 2
          THEN /\ fetches' = fetches + 1
               /\ UNCHANGED <<pc, protocols, df, outcome>>
          ELSE IF ~got.ok \/ Len(got.val) = 0
          THEN ReturnEmpty /\ UNCHANGED <<protocols, fetches>>
          ELSE /\ protocols' = got.val
               /\ pc' = "fetched"
               /\ UNCHANGED <<df, outcome, fetches>>
    /\ completed' = completed + 1
    /\ UNCHANGED <<top_n, sorted_protocols, i, results, insights, market, raw, scored>>

\* the fetch completes: fetch_data, get_protocol_data, "if not protocols"
FetchReturn(r) ==
    /\ pc = "fetching"
    /\ response' = r
    /\ LET got == GetProtocolData(FetchData(r))
       IN IF ~got.ok \/ Len(got.val) = 0
          THEN ReturnEmpty /\ UNCHANGED protocols
          ELSE /\ protocols' = got.val
               /\ pc' = "fetched"
               /\ UNCHANGED <<df, outcome>>
    /\ completed' = completed + 1
    /\ UNCHANGED <<top_n, sorted_protocols, i, results, fetches, insights, market,
                   raw, scored>>

\* sorted(protocols, key, reverse=True)[:top_n]
SortTopN ==
    /\ pc = "fetched"
    /\ LET s == SortedByTvl(protocols)
       IN IF ~s.ok
          THEN ReturnEmpty /\ UNCHANGED <<sorted_protocols, i, results>>
          ELSE /\ sorted_protocols' = PySlice(s.val, top_n)
               /\ i' = 0
               /\ results' = <<>>
               /\ pc' = "scoring"
               /\ UNCHANGED <<df, outcome>>
    /\ UNCHANGED <<top_n, response, protocols, fetches, completed, insights, market,
                   raw, scored>>

\* one turn of the loop over sorted_protocols
ScoreNext ==
    /\ pc = "scoring"
    /\ i < Len(sorted_protocols)
    /\ LET metrics == GetProtocolHealthMetrics(sorted_protocols[i + 1], Today)
       IN CASE metrics.kind = "raised" ->
                 ReturnEmpty /\ UNCHANGED <<i, results>>
            [] metrics.kind = "none" ->
                 /\ i' = i + 1
                 /\ UNCHANGED <<results, df, outcome, pc>>
            [] OTHER ->
                 /\ i' = i + 1
                 /\ results' = Append(results, metrics.row)
                 /\ UNCHANGED <<df, outcome, pc>>
    /\ UNCHANGED <<top_n, response, protocols, sorted_protocols, fetches, completed,
                   insights, market,
                   raw, scored>>

\* after the loop: the frame with its timestamp, or pd.DataFrame()
Assemble ==
    /\ pc = "scoring"
    /\ i = Len(sorted_protocols)
    /\ df' = IF Len(results) = 0 THEN EmptyDataFrame ELSE DataFrame(results, Today)
    /\ outcome' = "returned"
    /\ pc' = "done"
    /\ UNCHANGED <<top_n, response, protocols, sorted_protocols, i, results,
                   fetches, completed, insights, market, raw, scored>>

\* ProtocolAnalyzer(df).calculate_market_metrics().  The drivers (main) call
\* it on a non-empty frame only; the class itself takes any frame.
Analyze ==
    /\ pc = "done"
    /\ market' = CalculateMarketMetrics(df)
    /\ pc' = "analyzed"
    /\ UNCHANGED <<top_n, response, protocols, sorted_protocols, i, results, df,
                   outcome, fetches, completed, insights, raw, scored>>

Next ==
    \/ \E n \in (0 - MaxNegTopN)..MaxTopN : Call(n)
    \/ \E r \in Responses : FetchReturn(r)
    \/ SortTopN
    \/ ScoreNext
    \/ Assemble
    \/ Analyze

Spec == Init /\ [][Next]_vars

\* ---------------------------------------------------- the scorer alone
InitScorer ==
    /\ InitPipeline
    /\ raw \in ScorerRecords
    /\ scored = ScoredPending

\* await get_protocol_health_metrics(raw)
Score ==
    /\ scored.kind = "pending"
    /\ scored' = GetProtocolHealthMetrics(raw, Today)
    /\ UNCHANGED <<raw, pipelineVars>>

NextScorer == Score

SpecScorer == InitScorer /\ [][NextScorer]_vars

\* ------------------------------------------------- the analyzer alone
\* Raw records behind the frames handed to the analyzer: every tag rule and
\* risk tier occurs, TVLs 5, 3, 2, a zero and a negative TVL, and a record
\* whose chains are None.
AnalyzerRecords ==
    { Dict(NoText, Num(TenBillion + 1), Absent, Chains(11), NoText, Num(Today - 400)),
      Dict(NoText, Num(2 * Billion), Absent, Chains(6), NoText, Absent),
      Dict(NoText, Num(5), Absent, Chains(3), NoText, Absent),
      Dict(NoText, Num(3), Absent, Chains(2), NoText, Absent),
      Dict(NoText, Num(2), Absent, Chains(1), NoText, Absent),
      Dict(NoText, Num(0), Absent, NoChains, NoText, Absent),
      Dict(NoText, Num(0 - 10), Absent, Chains(2), NoText, Absent),
      Dict(NoText, Junk, Absent, NullChains, NoText, Absent) }

AnalyzerPayloads == {Named(s) : s \in SeqsUpTo(AnalyzerRecords, MaxRows)}

\* The rows analyze_protocols collects from a payload when top_n covers it.
RECURSIVE ScoreAll(_)
ScoreAll(s) ==
    IF Len(s) = 0 THEN <<>>
    ELSE LET metrics == GetProtocolHealthMetrics(s[1], Today)
         IN (IF metrics.kind = "metrics" THEN <<metrics.row>> ELSE <<>>)
            \o ScoreAll(Tail(s))

\* analyze_protocols(top_n = len(payload)) has returned its frame.
InitAnalyzer ==
    /\ \E p \in AnalyzerPayloads :
          /\ Len(p) > 0
          /\ top_n = Len(p)
          /\ response = Http(HttpOk, JsonList(p))
          /\ protocols = p
          /\ sorted_protocols = PySlice(SortedByTvl(p).val, Len(p))
          /\ i = Len(p)
          /\ results = ScoreAll(sorted_protocols)
          /\ df = IF Len(results) = 0 THEN EmptyDataFrame ELSE DataFrame(results, Today)
    /\ pc = "done"
    /\ outcome = "returned"
    /\ fetches = 1
    /\ completed = 1
    /\ insights = NoInsights("pending")
    /\ market = NoMarket("pending")
    /\ raw = NonDict
    /\ scored = ScoredPending

\* ProtocolAnalyzer(df).generate_protocol_insights(), called after the metrics
GenerateInsights ==
    /\ pc = "analyzed"
    /\ insights' = GenerateProtocolInsights(df)
    /\ pc' = "reported"
    /\ UNCHANGED <<top_n, response, protocols, sorted_protocols, i, results, df,
                   outcome, fetches, completed, market, raw, scored>>

NextAnalyzer ==
    \/ Analyze
    \/ GenerateInsights

SpecAnalyzer == InitAnalyzer /\ [][NextAnalyzer]_vars

\* ------------------------------------------------------------- claims
Returned == outcome = "returned"
RowNames(rows) == [k \in 1..Len(rows) |-> rows[k].name.val]

WellFormed(r) ==
    /\ r.isDict
    /\ SafeFloat(Get(r, "tvl", Num(0))).ok
    /\ SafeFloat(Get(r, "mcap", Num(0))).ok
    /\ PyLen(Get(r, "chains", List(<<>>))).ok
    /\ Get(r, "created_at", Num(Today)).kind \in {"num", "str", "junk"}

\* C2: per-record isolation: the well-formed records among the top_n
\* selected (TVL descending, uncoercible TVL counted as 0) all have their
\* row in the returned frame, in sorted order, whatever the other records
\* of the batch are.
C2_PerRecordIsolation ==
    (Returned /\ top_n >= 0) =>
        LET selected == PySlice(StableSortDesc(protocols), top_n)
            expected == SelectSeq(selected, WellFormed)
            wellFormedNames == {expected[k].name.val : k \in 1..Len(expected)}
            present == SelectSeq(df.rows, LAMBDA row : row.name.val \in wellFormedNames)
        IN RowNames(present) = RowNames(expected)

\* The fetch yields no data: transport exception, status other than 200, or a
\* body that is not JSON, is null, is not a list, or is empty.
NoData(r) ==
    \/ r.kind = "exception"
    \/ /\ r.kind = "http"
       /\ \/ r.status # HttpOk
          \/ r.body.kind \in {"invalid", "null", "dict", "emptydict"}
          \/ r.body.kind = "list" /\ Len(r.body.val) = 0

\* C3: whenever the fetch yields no data, analyze_protocols returns the
\* empty frame, and it never lets an exception reach its caller.
C3_NoDataGivesEmpty ==
    /\ outcome # "raised"
    /\ (response.kind # "none" /\ NoData(response)) =>
           /\ pc \in {"done", "analyzed"}
           /\ Returned
           /\ df = EmptyDataFrame

\* A failed exchange (status 500) whose body nevertheless carried records.
C3_Witness ==
    /\ response.kind = "http"
    /\ response.status # HttpOk
    /\ response.body.kind = "list"
    /\ Len(response.body.val) > 0
    /\ response.body.val[1].isDict
    /\ Returned
    /\ df = EmptyDataFrame

\* C4: a call with top_n < 0 fails fast as a contract violation: it never
\* returns a scored collection.
C4_NegativeTopNFailsFast ==
    (top_n < 0 /\ pc \in {"done", "analyzed"}) => ~(Returned /\ Len(df.rows) > 0)

\* A step of scoring fails internally: a numeric field that float() cannot
\* take, chains without a length, created_at of an unusable type.
InternalFailure(r) ==
    \/ ~SafeFloat(Get(r, "tvl", Num(0))).ok
    \/ ~SafeFloat(Get(r, "mcap", Num(0))).ok
    \/ ~PyLen(Get(r, "chains", List(<<>>))).ok
    \/ Get(r, "created_at", Num(Today)).kind \in {"null", "object"}

\* C5: scoring a raw record never raises, and a record with an internal
\* failure resolves to None: no row with defaulted part-scores is emitted.
C5_FailureGivesAbsent ==
    (scored.kind # "pending" /\ raw.isDict) =>
        /\ scored.kind # "raised"
        /\ InternalFailure(raw) => scored.kind = "none"

\* The reference mapping of the risk tier.
RefRiskScore(tvl, chains) ==
    (IF tvl > Billion THEN 1
     ELSE IF HundredMillion < tvl /\ tvl <= Billion THEN 2 ELSE 3)
    + (IF chains > 5 THEN 1 ELSE IF 2 < chains /\ chains <= 5 THEN 2 ELSE 3)
RefTier(risk_score) ==
    CASE risk_score <= 3 -> "Low"
      [] risk_score \in {4, 5} -> "Medium"
      [] risk_score = 6 -> "High"
      [] OTHER -> "undefined"

\* C6: for every coerced tvl and every chain count the risk tier is the
\* reference mapping of a risk score in 2..6 (tvl = 0 without chains is
\* High, tvl = 2e9 with 12 chains is Low).
C6_RiskTierIsReference ==
    (scored.kind = "metrics" /\ scored.row.chains.kind = "list") =>
        LET tvl == scored.row.tvl
            chains == Len(scored.row.chains.val)
            risk_level == scored.row.health_metrics.risk_level
        IN /\ RefRiskScore(tvl, chains) \in 2..6
           /\ risk_level = RefTier(RefRiskScore(tvl, chains))
           /\ (tvl = 0 /\ chains = 0) => risk_level = "High"
           /\ (tvl = 2 * Billion /\ chains = 12) => risk_level = "Low"

\* A record on both bucket boundaries: tvl exactly 1e9 and exactly 5 chains.
C6_Witness ==
    /\ scored.kind = "metrics"
    /\ scored.row.tvl = Billion
    /\ scored.row.chains.kind = "list"
    /\ Len(scored.row.chains.val) = 5
    /\ scored.row.health_metrics.risk_level = "Medium"

\* C7: in every row produced from a raw record tvl >= 0, mcap >= 0 and
\* mcap_tvl_ratio >= 0, the ratio being mcap/tvl when tvl > 0 and 0 otherwise.
C7_NonNegativeFields ==
    scored.kind = "metrics" =>
        /\ scored.row.tvl >= 0
        /\ scored.row.mcap >= 0
        /\ scored.row.mcap_tvl_ratio.kind = "fin"
        /\ scored.row.mcap_tvl_ratio.num >= 0
        /\ scored.row.mcap_tvl_ratio =
               IF scored.row.tvl > 0 THEN Frac(scored.row.mcap, scored.row.tvl)
               ELSE Zero

\* C8: for every raw record (any created_at, future ones included; stated
\* here for the non-negative tvl alone) the stability score lies in [0.0, 1.0].
C8_StabilityInUnitInterval ==
    (scored.kind = "metrics" /\ scored.row.tvl >= 0) =>
        /\ scored.row.health_metrics.stability_score >= 0
        /\ scored.row.health_metrics.stability_score <= ScoreScale

\* C9: aggregating the empty collection returns metrics with total_tvl = 0,
\* tvl_concentration = 0, every dominance ratio 0, chain_diversity = 0 and
\* average_chains_per_protocol = 0.
C9_EmptyCollectionMetrics ==
    (pc = "analyzed" /\ Len(df.rows) = 0) =>
        /\ market.kind = "metrics"
        /\ market.total_tvl = 0
        /\ market.tvl_concentration = Zero
        /\ market.top_protocols_dominance = NoDominance
        /\ market.chain_distribution.chain_diversity = 0
        /\ market.chain_distribution.average_chains_per_protocol = Zero

\* C10: for a non-empty collection whose protocols all have tvl = 0, the
\* concentration is 0 and the top-3, top-5 and top-10 dominance are each 0.
C10_ZeroTotalMetrics ==
    (/\ pc = "analyzed"
     /\ Len(df.rows) > 0
     /\ \A k \in 1..Len(df.rows) : df.rows[k].tvl = 0 /\ df.rows[k].chains.kind = "list") =>
        /\ market.kind = "metrics"
        /\ market.tvl_concentration = Zero
        /\ market.top_protocols_dominance.top_3_dominance = Zero
        /\ market.top_protocols_dominance.top_5_dominance = Zero
        /\ market.top_protocols_dominance.top_10_dominance = Zero

\* C11: for every collection of n > 0 protocols with non-negative TVLs and
\* total_tvl > 0 the concentration lies in [1/n, 1]; TVLs 500, 300, 200
\* (here 5, 3, 2) give 0.38.
C11_ConcentrationBounds ==
    (/\ pc \in {"analyzed", "reported"}
     /\ market.kind = "metrics"
     /\ \A k \in 1..Len(df.rows) : df.rows[k].tvl >= 0
     /\ SumSeq(TvlColumn(df.rows)) > 0) =>
        LET n == Len(df.rows)
            c == market.tvl_concentration
        IN /\ n > 0
           /\ c.kind = "fin"
           /\ c.den <= n * c.num
           /\ c.num <= c.den
           /\ (TvlColumn(df.rows) = <<5, 3, 2>>) => c = Frac(38, 100)

\* The metrics of the three protocols with TVLs 5, 3 and 2.
C11_Witness ==
    /\ pc = "analyzed"
    /\ market.kind = "metrics"
    /\ TvlColumn(df.rows) = <<5, 3, 2>>
    /\ market.tvl_concentration = Frac(38, 100)

\* a <= b on finite quotients
LeqFrac(a, b) == a.num * b.den <= b.num * a.den
Hundred == Frac(100, 1)

\* C12: for every collection the pipeline can produce with total_tvl > 0,
\* 0 <= top_3 <= top_5 <= top_10 <= 100, and a top-k ratio over fewer than k
\* members sums over all of them and equals 100.
C12_DominanceMonotone ==
    (/\ pc \in {"analyzed", "reported"}
     /\ market.kind = "metrics"
     /\ SumSeq(TvlColumn(df.rows)) > 0) =>
        LET dom == market.top_protocols_dominance
            n == Len(df.rows)
        IN /\ dom.top_3_dominance.kind = "fin"
           /\ dom.top_5_dominance.kind = "fin"
           /\ dom.top_10_dominance.kind = "fin"
           /\ LeqFrac(Zero, dom.top_3_dominance)
           /\ LeqFrac(dom.top_3_dominance, dom.top_5_dominance)
           /\ LeqFrac(dom.top_5_dominance, dom.top_10_dominance)
           /\ LeqFrac(dom.top_10_dominance, Hundred)
           /\ (n < 3) => dom.top_3_dominance = Hundred
           /\ (n < 5) => dom.top_5_dominance = Hundred
           /\ (n < 10) => dom.top_10_dominance = Hundred

\* The tags the fixed rules trigger for one row.
ExpectedTags(row) ==
    (IF row.tvl > TenBillion THEN {Tag("size", "high")} ELSE {})
    \cup (IF Len(row.chains.val) > 10 THEN {Tag("diversity", "positive")} ELSE {})
    \cup (IF Len(row.chains.val) < 3 THEN {Tag("diversity", "warning")} ELSE {})
    \cup (IF row.health_metrics.risk_level = "High" THEN {Tag("risk", "warning")} ELSE {})

\* C13: generate_protocol_insights returns exactly one entry per protocol, in
\* collection order, none omitted, and each entry's tags are exactly the ones
\* its rules trigger.
C13_OneEntryPerProtocol ==
    (pc = "reported") =>
        /\ insights.kind = "returned"
        /\ Len(insights.entries) = Len(df.rows)
        /\ \A k \in 1..Len(df.rows) :
              LET tags == insights.entries[k].insights
              IN /\ insights.entries[k].name = df.rows[k].name
                 /\ {tags[j] : j \in 1..Len(tags)} = ExpectedTags(df.rows[k])
                 /\ Len(tags) = Cardinality(ExpectedTags(df.rows[k]))

\* C14: the returned collection is exactly the image, in order, of the first
\* min(top_n, universe size) records of the stable TVL-descending sort of the
\* fetched sequence (ties in fetch order), the Absent-scored records removed.
C14_StableTopNImage ==
    (Returned /\ top_n >= 0) =>
        LET universe == StableSortDesc(protocols)
            selected == SubSeq(universe, 1, Min(top_n, Len(universe)))
        IN df.rows = ScoreAll(selected)

\* C15: when created_at is missing, null, or a string that fails to parse,
\* the protocol has age 0: the stability score is min(tvl/1e9, 0.6) with no
\* age contribution.
C15_AbsentCreatedAtIsAgeZero ==
    (/\ scored.kind = "metrics"
     /\ scored.row.tvl >= 0
     /\ raw.created_at.kind \in {"absent", "null", "junk"}) =>
        scored.row.health_metrics.stability_score =
            Min((scored.row.tvl * ScoreScale) \div Billion, TvlScoreCap)

\* C16: every run of analyze_protocols issues exactly one fetch, which
\* completes before any record is sorted or scored; there is no second fetch,
\* not even after a failed or empty one, so at most one is outstanding.
C16_SingleFetch ==
    /\ fetches = (IF pc = "idle" THEN 0 ELSE 1)
    /\ fetches - completed \in {0, 1}
    /\ (pc = "fetching") <=> (fetches - completed = 1)
    /\ (pc = "fetching") =>
           Len(sorted_protocols) = 0 /\ Len(results) = 0 /\ i = 0
    /\ (pc \in {"fetched", "scoring"} \/ Len(sorted_protocols) > 0 \/ i > 0) =>
           completed = 1 /\ response.kind # "none"
    /\ (pc \in {"done", "analyzed"}) => fetches = 1 /\ completed = 1

\* A run whose only fetch failed with status 500 and was not repeated.
C16_Witness ==
    /\ pc = "done"
    /\ response.kind = "http"
    /\ response.status # HttpOk
    /\ fetches = 1
    /\ completed = 1

====
